---- MODULE Spec2Model ----
(***************************************************************************)
(* A model of the mandelbrot renderer: the escape-time kernels, the        *)
(* pixel-to-plane mapping, the band-parallel render pipeline, the aspect   *)
(* corrector of common_args and the monotone cubic palette interpolation.  *)
(*                                                                         *)
(* f64 values are modelled as binary floating-point numbers with a         *)
(* significand of Prec bits, round-to-nearest-even after every operation,  *)
(* and a smallest positive value of 2^-FracBits (gradual underflow below). *)
(* A value v is held as the integer v * 2^FracBits.  The inputs are kept   *)
(* small enough that no operation overflows to infinity; a u8 and every    *)
(* pixel dimension used converts to this format exactly, as it does to f64.*)
(***************************************************************************)
EXTENDS Integers, Sequences, FiniteSets, TLC

VARIABLES
    kkind,      \* kernel run: which of the three kernels
    kpoint,     \* kernel run: the point under test
    kseed,      \* kernel run: the Julia seed
    klimit,     \* kernel run: the iteration limit
    kz,         \* kernel run: the local z
    ki,         \* kernel run: the loop index i
    kresult,    \* kernel run: the returned Option<usize>
    kpc         \* kernel run: "loop" or "done"

kvars == <<kkind, kpoint, kseed, klimit, kz, ki, kresult, kpc>>

VARIABLES
    mbounds,    \* mapper call: the pixel bounds <<width, height>>
    mul,        \* mapper call: upper_left
    mlr,        \* mapper call: lower_right
    mpixel,     \* mapper call: the pixel <<column, row>>
    mpoint,     \* mapper call: the returned point
    mpc         \* mapper call: "call" or "done"

mvars == <<mbounds, mul, mlr, mpixel, mpoint, mpc>>

VARIABLES
    sbounds,    \* split render: the image bounds
    sul,        \* split render: upper_left of the image
    slr,        \* split render: lower_right of the image
    skind,      \* split render: the kernel
    sseed,      \* split render: the Julia seed
    scolors,    \* split render: the palette
    swhole,     \* split render: the buffer rendered by one call over the full bounds
    sbands,     \* split render: the buffer rendered band by band
    srow,       \* split render: the next band
    spc         \* split render: "whole", "bands" or "done"

svars == <<sbounds, sul, slr, skind, sseed, scolors, swhole, sbands, srow, spc>>

VARIABLES
    pc,             \* create_*: "start", "parallel", "encoded" or "panicked"
    pbounds,        \* create_*: the image bounds <<width, height>>
    pul,            \* create_*: upper_left of the plane rectangle
    plr,            \* create_*: lower_right of the plane rectangle
    pkind,          \* create_*: the kernel ("julia", or by altfn "burningship" / "mandel")
    pseed,          \* create_julia: the seed
    pcolors,        \* create_*: the palette
    ppixels,        \* the pixel buffer (a 1-based sequence of bytes)
    bands,          \* the chunks of ppixels, band i at bands[i + 1] = <<first, last>>
    band_pc,        \* per band: "ready", "render" or "done"
    band_corners,   \* per band: <<band_upper_left, band_lower_right>>
    band_col,       \* per band: the byte column col of the render loop
    written,        \* per byte of ppixels: the bands that stored to it, in order
    image,          \* the bytes write_image was given
    encoder_calls   \* the number of calls of write_image

pvars == <<pc, pbounds, pul, plr, pkind, pseed, pcolors, ppixels, bands,
           band_pc, band_corners, band_col, written, image, encoder_calls>>

VARIABLES
    aversion,   \* common_args: "args" (args.rs) or "main" (main.rs)
    abounds,    \* common_args: the parsed image bounds
    aul_in,     \* common_args: the parsed upper left corner
    alr_in,     \* common_args: the parsed lower right corner
    aul,        \* common_args: upper_left as returned
    alr,        \* common_args: lower_right as returned
    apc         \* common_args: "call", "done" or "panicked"

avars == <<aversion, abounds, aul_in, alr_in, aul, alr, apc>>

VARIABLES
    cy,         \* palette channel: the knot values y (u8)
    cknots,     \* palette channel: the knot positions
    cm,         \* palette channel: the tangents returned by the preprocess
    cx,         \* palette channel: the last query position (-1: none yet)
    cval,       \* palette channel: the byte interpolate returned for cx (-1: none)
    cprev,      \* palette channel: the byte returned for the query before (-1: none)
    cpc         \* palette channel: "preprocess", "query" or "done"

cvars == <<cy, cknots, cm, cx, cval, cprev, cpc>>

VARIABLES
    tstr,       \* parse call: the string s, a sequence of characters
    tsep,       \* parse call: the separator
    ttype,      \* parse call: the type T, "usize" or "f64"
    tresult,    \* parse call: the returned Option
    tpc         \* parse call: "call", "pair" (parse_pair returned) or "complex"

tvars == <<tstr, tsep, ttype, tresult, tpc>>

vars == <<kvars, mvars, svars, pvars, avars, cvars, tvars>>

NotKernel == <<mvars, svars, pvars, avars, cvars, tvars>>

NotMap == <<kvars, svars, pvars, avars, cvars, tvars>>

NotSplit == <<kvars, mvars, pvars, avars, cvars, tvars>>

NotPipe == <<kvars, mvars, svars, avars, cvars, tvars>>

NotArgs == <<kvars, mvars, svars, pvars, cvars, tvars>>

NotPalette == <<kvars, mvars, svars, pvars, avars, tvars>>

NotParse == <<kvars, mvars, svars, pvars, avars, cvars>>

(* ---------------------------------------------------------------------- *)
(* Bounds of the model                                                     *)
(* ---------------------------------------------------------------------- *)
Prec == 8
FracBits == 12
CoordMax == 5
MaxLimit == 4
MaxWidth == 3
MaxHeight == 3
MaxKnots == 3
MaxStr == 4

(* The fixed iteration limit the render routines pass to the kernels. *)
Limit == 255

Unit == 2 ^ FracBits

Abs(n) == IF n < 0 THEN -n ELSE n

Sign(n) == IF n < 0 THEN -1 ELSE 1

Min(a, b) == IF a < b THEN a ELSE b

(* ---------------------------------------------------------------------- *)
(* f64 arithmetic                                                          *)
(* ---------------------------------------------------------------------- *)
RECURSIVE UlpOf(_, _)
(* The spacing of the representable values around the magnitude q. *)
UlpOf(q, u) == IF q < (2 ^ Prec) * u THEN u ELSE UlpOf(q, 2 * u)

(* num / den (den > 0, in units of 2^-FracBits) rounded to the nearest     *)
(* representable value, ties to the even significand.                      *)
RoundNE(num, den) ==
    LET a == Abs(num)
        u == UlpOf(a \div den, 1)
        D == den * u
        f == a \div D
        r == a % D
        g == IF 2 * r > D \/ (2 * r = D /\ f % 2 = 1) THEN f + 1 ELSE f
    IN  Sign(num) * g * u

FromInt(n) == RoundNE(n * Unit, 1)

(* The f64 nearest to the decimal n / d, as f64::from_str yields it. *)
Frac(n, d) == RoundNE(n * Unit, d)

fadd(a, b) == RoundNE(a + b, 1)

fsub(a, b) == RoundNE(a - b, 1)

(* The exact product, scaled by the two exponents ua and ub so that it     *)
(* stays small, then rounded once.                                         *)
fmul(a, b) ==
    LET ua == UlpOf(Abs(a), 1)
        ub == UlpOf(Abs(b), 1)
        s == (a \div ua) * (b \div ub)
        e == ua * ub
    IN  IF e >= Unit THEN RoundNE(s * (e \div Unit), 1)
        ELSE RoundNE(s, Unit \div e)

(* b # 0: every caller decides the zero divisor before dividing.  The      *)
(* exact quotient, scaled by the two exponents, then rounded once.         *)
fdiv(a, b) ==
    LET ua == UlpOf(Abs(a), 1)
        ub == UlpOf(Abs(b), 1)
        sa == Sign(b) * (a \div ua)
        sb == Abs(b) \div ub
        n == ua * Unit
    IN  IF n >= ub THEN RoundNE(sa * (n \div ub), sb)
        ELSE RoundNE(sa, sb * (ub \div n))

RECURSIVE Log2(_)
Log2(n) == IF n <= 1 THEN 0 ELSE 1 + Log2(n \div 2)

RECURSIVE isqrt_between(_, _, _)
(* The largest r in lo..hi with r * r <= n. *)
isqrt_between(n, lo, hi) ==
    IF lo >= hi THEN lo
    ELSE LET mid == (lo + hi + 1) \div 2
         IN  IF mid * mid <= n THEN isqrt_between(n, mid, hi)
             ELSE isqrt_between(n, lo, mid - 1)

(* f64::sqrt of x >= 0, correctly rounded: the root of the significand to  *)
(* Prec + 2 bits and a sticky bit, scaled by half the exponent.            *)
fsqrt(x) ==
    IF x <= 0 THEN 0
    ELSE LET u == UlpOf(x, 1)
             e == Log2(u * Unit)
             m == IF e % 2 = 0 THEN x \div u ELSE 2 * (x \div u)
             n == m * (4 ^ (Prec + 1))
             r == isqrt_between(n, 0, 2 ^ ((3 * Prec + 4) \div 2))
             sticky == IF r * r = n THEN 0 ELSE 1
         IN  RoundNE((2 * r + sticky) * (2 ^ (e \div 2)), 2 ^ (Prec + 2))

(* f64 as u8: truncation toward zero, saturating at 0 and 255. *)
as_u8(v) ==
    IF v <= 0 THEN 0
    ELSE IF v >= 255 * Unit THEN 255
    ELSE v \div Unit

(* ---------------------------------------------------------------------- *)
(* Complex<f64>                                                            *)
(* ---------------------------------------------------------------------- *)
Cplx(re, im) == [re |-> re, im |-> im]

cadd(a, b) == Cplx(fadd(a.re, b.re), fadd(a.im, b.im))

cmul(a, b) == Cplx(fsub(fmul(a.re, b.re), fmul(a.im, b.im)),
                   fadd(fmul(a.re, b.im), fmul(a.im, b.re)))

norm_sqr(z) == fadd(fmul(z.re, z.re), fmul(z.im, z.im))

(* ---------------------------------------------------------------------- *)
(* Escape-time kernels                                                     *)
(* ---------------------------------------------------------------------- *)
None == [some |-> FALSE, val |-> 0]

Some(i) == [some |-> TRUE, val |-> i]

Kinds == {"mandel", "julia", "burningship"}

(* The escape test at the top of each loop iteration. *)
escaped(z) == norm_sqr(z) >= 4 * Unit

(* Mutant of quadratic_step: z * z + c + 1 *)
quadratic_step_plus_one(z, c) == cadd(cadd(cmul(z, z), c), Cplx(Unit, 0))

(* z * z + c *)
quadratic_step(z, c) == cadd(cmul(z, z), c)

(* Complex { re: z.re.abs(), im: -z.im.abs() }.powi(2) + c *)
burningship_step(z, c) ==
    LET w == Cplx(Abs(z.re), -Abs(z.im))
    IN  cadd(cmul(w, w), c)

kernel_step(kind, z, c) ==
    IF kind = "burningship" THEN burningship_step(z, c) ELSE quadratic_step(z, c)

(* Mutant of kernel_start: every kernel starts at the point under test. *)
kernel_start_at_point(kind, point) == point

(* The value of z before the loop: 0 for mandel and burningship, the point *)
(* under test for julia.                                                   *)
kernel_start(kind, point) ==
    IF kind = "julia" THEN point ELSE Cplx(0, 0)

(* The constant added on each step: the point for mandel and burningship,  *)
(* the seed for julia.                                                     *)
kernel_param(kind, point, seed) ==
    IF kind = "julia" THEN seed ELSE point

(* One iteration of the loop on the locals st = [z, i, result]: nothing    *)
(* after a return; return Some(i) when the escape test holds; else update  *)
(* z and go to the next i.                                                 *)
loop_iteration(kind, st, c) ==
    IF st.result.some THEN st
    ELSE IF escaped(st.z) THEN [st EXCEPT !.result = Some(st.i)]
    ELSE [z |-> kernel_step(kind, st.z, c), i |-> st.i + 1, result |-> None]

RECURSIVE escape_loop(_, _, _, _)
(* n consecutive iterations of the loop, as two halves. *)
escape_loop(kind, st, c, n) ==
    IF n = 0 \/ st.result.some THEN st
    ELSE IF n = 1 THEN loop_iteration(kind, st, c)
    ELSE escape_loop(kind, escape_loop(kind, st, c, n \div 2), c, n - (n \div 2))

(* for i in 0..limit { ... } None *)
escape_time(kind, point, seed, limit) ==
    escape_loop(kind,
                [z |-> kernel_start(kind, point), i |-> 0, result |-> None],
                kernel_param(kind, point, seed), limit).result

escape_time_mandel(c, limit) == escape_time("mandel", c, c, limit)

escape_time_burningship(c, limit) == escape_time("burningship", c, c, limit)

escape_time_julia(z, c, limit) == escape_time("julia", z, c, limit)

(* ---------------------------------------------------------------------- *)
(* Coordinate mapper                                                       *)
(* ---------------------------------------------------------------------- *)
(* Mutant of pixel_to_point: the imaginary offset is added. *)
pixel_to_point_im_added(bounds, pixel, upper_left, lower_right) ==
    LET width == fsub(lower_right.re, upper_left.re)
        height == fsub(upper_left.im, lower_right.im)
    IN  Cplx(fadd(upper_left.re,
                  fdiv(fmul(FromInt(pixel[1]), width), FromInt(bounds[1]))),
             fadd(upper_left.im,
                  fdiv(fmul(FromInt(pixel[2]), height), FromInt(bounds[2]))))

(* bounds and pixel are pairs <<width, height>> and <<column, row>>. *)
pixel_to_point(bounds, pixel, upper_left, lower_right) ==
    LET width == fsub(lower_right.re, upper_left.re)
        height == fsub(upper_left.im, lower_right.im)
    IN  Cplx(fadd(upper_left.re,
                  fdiv(fmul(FromInt(pixel[1]), width), FromInt(bounds[1]))),
             fsub(upper_left.im,
                  fdiv(fmul(FromInt(pixel[2]), height), FromInt(bounds[2]))))

(* ---------------------------------------------------------------------- *)
(* Palette lookup (module color)                                           *)
(* ---------------------------------------------------------------------- *)
PaletteSize == 2048

PaletteNames == {"gray", "bands"}

Black == <<0, 0, 0>>

(* Entry k of the palette colors(name): two tables with no black entry and *)
(* a different colour for every iteration count below the limit.           *)
palette_entry(name, k) ==
    IF name = "gray"
    THEN <<(k % 255) + 1, (k % 255) + 1, (k % 255) + 1>>
    ELSE <<(k * 37) % 256, 255 - (k % 255), (k \div 8) % 256>>

(* color(colors, count): the palette entry at the clamped iteration count. *)
color(colors, count) == palette_entry(colors, Min(count, PaletteSize - 1))

(* ---------------------------------------------------------------------- *)
(* The render routines                                                     *)
(* ---------------------------------------------------------------------- *)
(* The body of the column loop for the byte column col of row: the colour  *)
(* of the pixel.                                                           *)
pixel_color(kind, bounds, upper_left, lower_right, seed, colors, row, col) ==
    LET point == pixel_to_point(bounds, <<col \div 3, row>>, upper_left, lower_right)
        count == escape_time(kind, point, seed, Limit)
    IN  IF count.some THEN color(colors, count.val) ELSE Black

(* Mutant of pixel_index: the index is one byte too far. *)
pixel_index_plus_one(bounds, row, col) == row * bounds[1] * 3 + col + 1

(* let pix = row * bounds.0 * 3 + col *)
pixel_index(bounds, row, col) == row * bounds[1] * 3 + col

(* Mutant of pixel_stores: the second store repeats at pix + 1's neighbour *)
(* so that byte pix is never stored and byte pix + 1 is stored twice.      *)
pixel_stores_shifted(pix, c) == <<<<pix + 1, c[1]>>, <<pix + 1, c[2]>>, <<pix + 2, c[3]>>>>

(* The three stores of one pixel, as <<index, byte>> pairs (0-based). *)
pixel_stores(pix, c) == <<<<pix, c[1]>>, <<pix + 1, c[2]>>, <<pix + 2, c[3]>>>>

(* (0..bounds.0 * 3).step_by(3) *)
byte_columns(bounds) == {3 * k : k \in 0..(bounds[1] - 1)}

(* The assertion at the top of every render routine. *)
render_assert(len, bounds) == len = bounds[1] * 3 * bounds[2]

(* pixels[pix] = r; pixels[pix+1] = g; pixels[pix+2] = b on the slice buf  *)
(* (a 1-based sequence): an index outside the slice panics.                *)
store_pixel(buf, stores) ==
    IF \E k \in 1..3 : stores[k][1] >= Len(buf.pixels)
    THEN [panic |-> TRUE, pixels |-> buf.pixels]
    ELSE [panic |-> FALSE,
          pixels |-> [n \in 1..Len(buf.pixels) |->
                        IF \E k \in 1..3 : stores[k][1] = n - 1
                        THEN stores[CHOOSE k \in 1..3 :
                                      /\ stores[k][1] = n - 1
                                      /\ \A j \in (k + 1)..3 : stores[j][1] # n - 1][2]
                        ELSE buf.pixels[n]]]

RECURSIVE render_loop(_, _, _, _, _, _, _, _)
(* The row and column loops from pixel number k on (row-major order). *)
render_loop(buf, kind, bounds, upper_left, lower_right, seed, colors, k) ==
    IF buf.panic \/ k >= bounds[1] * bounds[2] THEN buf
    ELSE LET row == k \div bounds[1]
             col == 3 * (k % bounds[1])
             c == pixel_color(kind, bounds, upper_left, lower_right, seed, colors,
                              row, col)
         IN  render_loop(store_pixel(buf, pixel_stores(pixel_index(bounds, row, col), c)),
                         kind, bounds, upper_left, lower_right, seed, colors, k + 1)

(* A whole call of render_mandel / render_julia / render_burningship on    *)
(* the slice pixels.                                                       *)
render(pixels, kind, bounds, upper_left, lower_right, seed, colors) ==
    IF ~render_assert(Len(pixels), bounds)
    THEN [panic |-> TRUE, pixels |-> pixels]
    ELSE render_loop([panic |-> FALSE, pixels |-> pixels], kind, bounds,
                     upper_left, lower_right, seed, colors, 0)

(* ---------------------------------------------------------------------- *)
(* One kernel call, one loop iteration per step                            *)
(* ---------------------------------------------------------------------- *)
CoordSet == {k * (Unit \div 2) : k \in -CoordMax..CoordMax}

Points == {Cplx(re, im) : re \in CoordSet, im \in CoordSet}

(* Complex{ re: 0.4, im: 0.6 }, the seed used when --seed is absent. *)
DefaultSeed == Cplx(RoundNE(2 * Unit, 5), RoundNE(3 * Unit, 5))

Seeds == {DefaultSeed, Cplx(-Unit, 0)}

LimitSet == (0..MaxLimit) \cup {Limit}

KernelIdle ==
    /\ kkind = "mandel"
    /\ kpoint = Cplx(0, 0)
    /\ kseed = DefaultSeed
    /\ klimit = 0
    /\ kz = Cplx(0, 0)
    /\ ki = 0
    /\ kresult = None
    /\ kpc = "done"

KernelInit ==
    /\ kkind \in Kinds
    /\ kpoint \in Points
    /\ kseed \in (IF kkind = "julia" THEN Seeds ELSE {DefaultSeed})
    /\ klimit \in LimitSet
    /\ kz = kernel_start(kkind, kpoint)
    /\ ki = 0
    /\ kresult = None
    /\ kpc = "loop"

kc == kernel_param(kkind, kpoint, kseed)

(* Mutant of KernelReturn: the index after the escape test is returned. *)
KernelReturn_next_index ==
    /\ kpc = "loop"
    /\ ki < klimit
    /\ norm_sqr(kz) >= 4 * Unit
    /\ kresult' = [some |-> TRUE, val |-> ki + 1]
    /\ kpc' = "done"
    /\ UNCHANGED <<kkind, kpoint, kseed, klimit, kz, ki>>
    /\ UNCHANGED NotKernel

(* if z.norm_sqr() >= 4. { return Some(i) } *)
KernelReturn ==
    /\ kpc = "loop"
    /\ ki < klimit
    /\ escaped(kz)
    /\ kresult' = Some(ki)
    /\ kpc' = "done"
    /\ UNCHANGED <<kkind, kpoint, kseed, klimit, kz, ki>>
    /\ UNCHANGED NotKernel

(* the update of z at the end of an iteration that did not return *)
KernelIterate ==
    /\ kpc = "loop"
    /\ ki < klimit
    /\ ~escaped(kz)
    /\ kz' = kernel_step(kkind, kz, kc)
    /\ ki' = ki + 1
    /\ UNCHANGED <<kkind, kpoint, kseed, klimit, kresult, kpc>>
    /\ UNCHANGED NotKernel

(* the range 0..limit is exhausted: None *)
KernelExhaust ==
    /\ kpc = "loop"
    /\ ki >= klimit
    /\ kresult' = None
    /\ kpc' = "done"
    /\ UNCHANGED <<kkind, kpoint, kseed, klimit, kz, ki>>
    /\ UNCHANGED NotKernel

(* ---------------------------------------------------------------------- *)
(* Inputs of the mapper and the renderers                                  *)
(* ---------------------------------------------------------------------- *)
BoundsSet == {<<w, h>> : w \in 1..MaxWidth, h \in 1..MaxHeight}

ReSet == {Frac(-239, 100), Frac(-2, 1), Frac(-3, 4), Frac(1, 10), Frac(1, 1),
          Frac(1442, 1000), Frac(2, 1)}

ImSet == {Frac(2, 1), Frac(5, 4), Frac(1, 10), Frac(-1, 3), Frac(-1, 1),
          Frac(-189, 100), Frac(-2, 1)}

(* Plane rectangles: lower_right.re >= upper_left.re and                   *)
(* upper_left.im >= lower_right.im.                                        *)
Rects == {<<Cplx(a, b), Cplx(c, d)>> : a \in ReSet, b \in ImSet, c \in ReSet, d \in ImSet}

PlaneRects == {r \in Rects : r[2].re >= r[1].re /\ r[1].im >= r[2].im}

SplitRe == {Frac(-239, 100), Frac(-3, 4), Frac(1442, 1000)}

SplitIm == {Frac(2, 1), Frac(1, 10), Frac(-189, 100)}

SplitRects == {r \in PlaneRects : /\ r[1].re \in SplitRe /\ r[2].re \in SplitRe
                                  /\ r[1].im \in SplitIm /\ r[2].im \in SplitIm
                                  /\ r[2].re > r[1].re /\ r[1].im > r[2].im}

(* The rectangle of the command line's full example: -2,2 2,-2 *)
PipeRects == {<<Cplx(Frac(-2, 1), Frac(2, 1)), Cplx(Frac(2, 1), Frac(-2, 1))>>}

(* ---------------------------------------------------------------------- *)
(* One call of pixel_to_point                                              *)
(* ---------------------------------------------------------------------- *)
MapIdle ==
    /\ mbounds = <<1, 1>>
    /\ mul = Cplx(0, 0)
    /\ mlr = Cplx(0, 0)
    /\ mpixel = <<0, 0>>
    /\ mpoint = Cplx(0, 0)
    /\ mpc = "done"

MapInit ==
    /\ mbounds \in BoundsSet
    /\ \E r \in PlaneRects : mul = r[1] /\ mlr = r[2]
    /\ mpixel = <<0, 0>>
    /\ mpoint = Cplx(0, 0)
    /\ mpc = "call"

MapPixel ==
    /\ mpc = "call"
    /\ \E col \in 0..mbounds[1], row \in 0..mbounds[2] :
          /\ mpixel' = <<col, row>>
          /\ mpoint' = pixel_to_point(mbounds, <<col, row>>, mul, mlr)
    /\ mpc' = "done"
    /\ UNCHANGED <<mbounds, mul, mlr>>
    /\ UNCHANGED NotMap

(* ---------------------------------------------------------------------- *)
(* One image rendered twice: by one call over the full bounds, and band by *)
(* band as the closure of create_mandel / create_julia renders each chunk  *)
(* ---------------------------------------------------------------------- *)
Zeroed(n) == [k \in 1..n |-> 0]

(* pixels.chunks_mut(size): chunk i (0-based) of a slice of len bytes, as  *)
(* <<first, last>> 1-based positions; the last chunk may be shorter.       *)
chunk(len, size, i) == <<i * size + 1, Min((i + 1) * size, len)>>

chunk_count(len, size) == (len + size - 1) \div size

(* The closure body for <<i, band>>: the band after the render call.       *)
render_band(band, i, kind, bounds, upper_left, lower_right, seed, colors) ==
    LET top == i
        band_bounds == <<bounds[1], 1>>
        band_upper_left == pixel_to_point(bounds, <<0, top>>, upper_left, lower_right)
        band_lower_right == pixel_to_point(bounds, <<bounds[1], top + 1>>,
                                           upper_left, lower_right)
    IN  render(band, kind, band_bounds, band_upper_left, band_lower_right, seed, colors)

SplitIdle ==
    /\ sbounds = <<1, 1>>
    /\ sul = Cplx(0, 0)
    /\ slr = Cplx(0, 0)
    /\ skind = "mandel"
    /\ sseed = DefaultSeed
    /\ scolors = "gray"
    /\ swhole = [panic |-> FALSE, pixels |-> <<>>]
    /\ sbands = [panic |-> FALSE, pixels |-> <<>>]
    /\ srow = 0
    /\ spc = "done"

SplitInit ==
    /\ sbounds \in BoundsSet
    /\ \E r \in SplitRects : sul = r[1] /\ slr = r[2]
    /\ skind \in Kinds
    /\ sseed = DefaultSeed
    /\ scolors \in PaletteNames
    /\ swhole = [panic |-> FALSE, pixels |-> Zeroed(sbounds[1] * 3 * sbounds[2])]
    /\ sbands = [panic |-> FALSE, pixels |-> Zeroed(sbounds[1] * 3 * sbounds[2])]
    /\ srow = 0
    /\ spc = "whole"

(* one render call with the full bounds and the image corners *)
SplitWhole ==
    /\ spc = "whole"
    /\ swhole' = render(swhole.pixels, skind, sbounds, sul, slr, sseed, scolors)
    /\ spc' = "bands"
    /\ UNCHANGED <<sbounds, sul, slr, skind, sseed, scolors, sbands, srow>>
    /\ UNCHANGED NotSplit

(* the closure on the next chunk of chunks_mut(bounds.0 * 3) *)
SplitBand ==
    /\ spc = "bands"
    /\ srow < chunk_count(Len(sbands.pixels), sbounds[1] * 3)
    /\ LET c == chunk(Len(sbands.pixels), sbounds[1] * 3, srow)
           band == SubSeq(sbands.pixels, c[1], c[2])
           out == render_band(band, srow, skind, sbounds, sul, slr, sseed, scolors)
       IN  sbands' = [panic |-> sbands.panic \/ out.panic,
                      pixels |-> SubSeq(sbands.pixels, 1, c[1] - 1) \o out.pixels
                                 \o SubSeq(sbands.pixels, c[2] + 1, Len(sbands.pixels))]
    /\ srow' = srow + 1
    /\ UNCHANGED <<sbounds, sul, slr, skind, sseed, scolors, swhole, spc>>
    /\ UNCHANGED NotSplit

SplitFinish ==
    /\ spc = "bands"
    /\ srow >= chunk_count(Len(sbands.pixels), sbounds[1] * 3)
    /\ spc' = "done"
    /\ UNCHANGED <<sbounds, sul, slr, skind, sseed, scolors, swhole, sbands, srow>>
    /\ UNCHANGED NotSplit

(* ---------------------------------------------------------------------- *)
(* create_mandel / create_julia: the band-parallel pipeline                *)
(* ---------------------------------------------------------------------- *)
BandIds == 0..(Len(bands) - 1)

band_len(i) == bands[i + 1][2] - bands[i + 1][1] + 1

PipeIdle ==
    /\ pc = "encoded"
    /\ pbounds = <<1, 1>>
    /\ pul = Cplx(0, 0)
    /\ plr = Cplx(0, 0)
    /\ pkind = "mandel"
    /\ pseed = DefaultSeed
    /\ pcolors = "gray"
    /\ ppixels = <<>>
    /\ bands = <<>>
    /\ band_pc = <<>>
    /\ band_corners = <<>>
    /\ band_col = <<>>
    /\ written = <<>>
    /\ image = <<>>
    /\ encoder_calls = 0

PipeInit ==
    /\ pc = "start"
    /\ pbounds \in BoundsSet
    /\ \E r \in PipeRects : pul = r[1] /\ plr = r[2]
    /\ pkind \in Kinds
    /\ pseed = DefaultSeed
    /\ pcolors = "gray"
    /\ ppixels = <<>>
    /\ bands = <<>>
    /\ band_pc = <<>>
    /\ band_corners = <<>>
    /\ band_col = <<>>
    /\ written = <<>>
    /\ image = <<>>
    /\ encoder_calls = 0

(* let mut pixels = vec![0; (bounds.0 * 3) * bounds.1];                    *)
(* let bands = pixels.chunks_mut(bounds.0 * 3).enumerate().collect();      *)
Allocate ==
    /\ pc = "start"
    /\ LET len == (pbounds[1] * 3) * pbounds[2]
           n == chunk_count(len, pbounds[1] * 3)
       IN  /\ ppixels' = Zeroed(len)
           /\ written' = [k \in 1..len |-> <<>>]
           /\ bands' = [i \in 1..n |-> chunk(len, pbounds[1] * 3, i - 1)]
           /\ band_pc' = [i \in 1..n |-> "ready"]
           /\ band_corners' = [i \in 1..n |-> <<Cplx(0, 0), Cplx(0, 0)>>]
           /\ band_col' = [i \in 1..n |-> 0]
    /\ pc' = "parallel"
    /\ UNCHANGED <<pbounds, pul, plr, pkind, pseed, pcolors, image,
                   encoder_calls>>
    /\ UNCHANGED NotPipe

(* Mutant of BandStart: the row of the band corners is the number of       *)
(* workers that started before (a shared counter), not the band's index.   *)
BandStart_shared_counter(i) ==
    /\ pc = "parallel"
    /\ band_pc[i + 1] = "ready"
    /\ LET row == Cardinality({j \in 1..Len(band_pc) : band_pc[j] # "ready"})
       IN  band_corners' = [band_corners EXCEPT ![i + 1] =
                <<pixel_to_point(pbounds, <<0, row>>, pul, plr),
                  pixel_to_point(pbounds, <<pbounds[1], row + 1>>, pul, plr)>>]
    /\ band_pc' = [band_pc EXCEPT ![i + 1] = "render"]
    /\ pc' = pc
    /\ UNCHANGED <<pbounds, pul, plr, pkind, pseed, pcolors, ppixels, bands,
                   band_col, written, image, encoder_calls>>
    /\ UNCHANGED NotPipe

(* A worker takes <<i, band>>: the band corners, and the assertion at the  *)
(* top of the render routine on band_bounds = (bounds.0, 1).               *)
BandStart(i) ==
    /\ pc = "parallel"
    /\ band_pc[i + 1] = "ready"
    /\ band_corners' = [band_corners EXCEPT ![i + 1] =
            <<pixel_to_point(pbounds, <<0, i>>, pul, plr),
              pixel_to_point(pbounds, <<pbounds[1], i + 1>>, pul, plr)>>]
    /\ IF render_assert(band_len(i), <<pbounds[1], 1>>)
       THEN /\ band_pc' = [band_pc EXCEPT ![i + 1] = "render"]
            /\ pc' = pc
       ELSE /\ band_pc' = band_pc
            /\ pc' = "panicked"
    /\ UNCHANGED <<pbounds, pul, plr, pkind, pseed, pcolors, ppixels, bands,
                   band_col, written, image, encoder_calls>>
    /\ UNCHANGED NotPipe

(* One pass of the column loop of the render routine on band i (its only   *)
(* row is row 0): the three stores go to the band's own slice.             *)
BandPixel(i) ==
    /\ pc = "parallel"
    /\ band_pc[i + 1] = "render"
    /\ \E c \in {pixel_color(pkind, <<pbounds[1], 1>>, band_corners[i + 1][1],
                             band_corners[i + 1][2], pseed, pcolors, 0,
                             band_col[i + 1])} :
        LET band_bounds == <<pbounds[1], 1>>
            col == band_col[i + 1]
            stores == pixel_stores(pixel_index(band_bounds, 0, col), c)
            first == bands[i + 1][1]
            last == bands[i + 1][2]
            out == store_pixel([panic |-> FALSE, pixels |-> SubSeq(ppixels, first, last)],
                               stores)
        IN  IF out.panic
            THEN /\ pc' = "panicked"
                 /\ UNCHANGED <<ppixels, written, band_col, band_pc>>
            ELSE /\ ppixels' = SubSeq(ppixels, 1, first - 1) \o out.pixels
                               \o SubSeq(ppixels, last + 1, Len(ppixels))
                 /\ written' = [n \in 1..Len(written) |->
                                 written[n] \o
                                 [k \in 1..Cardinality({j \in 1..3 :
                                                          first + stores[j][1] = n})
                                    |-> i]]
                 /\ band_col' = [band_col EXCEPT ![i + 1] = col + 3]
                 /\ band_pc' = [band_pc EXCEPT ![i + 1] =
                                  IF col + 3 \in byte_columns(band_bounds)
                                  THEN "render" ELSE "done"]
                 /\ pc' = pc
    /\ UNCHANGED <<pbounds, pul, plr, pkind, pseed, pcolors, bands,
                   band_corners, image, encoder_calls>>
    /\ UNCHANGED NotPipe

(* Mutant of WriteImage: the encoder does not wait for the bands. *)
WriteImage_without_join ==
    /\ pc = "parallel"
    /\ image' = ppixels
    /\ encoder_calls' = encoder_calls + 1
    /\ pc' = "encoded"
    /\ UNCHANGED <<pbounds, pul, plr, pkind, pseed, pcolors, ppixels, bands,
                   band_pc, band_corners, band_col, written>>
    /\ UNCHANGED NotPipe

(* for_each has returned: write_image(&pixels, bounds, file) *)
WriteImage ==
    /\ pc = "parallel"
    /\ \A i \in BandIds : band_pc[i + 1] = "done"
    /\ image' = ppixels
    /\ encoder_calls' = encoder_calls + 1
    /\ pc' = "encoded"
    /\ UNCHANGED <<pbounds, pul, plr, pkind, pseed, pcolors, ppixels, bands,
                   band_pc, band_corners, band_col, written>>
    /\ UNCHANGED NotPipe

(* ---------------------------------------------------------------------- *)
(* common_args: the aspect corrector                                       *)
(* ---------------------------------------------------------------------- *)
(* let ratio = bounds.0 as f64 / bounds.1 as f64 *)
pixel_ratio(bounds) == fdiv(FromInt(bounds[1]), FromInt(bounds[2]))

(* ratio != plane_ratio, where plane_ratio is the quotient of the extents: *)
(* with a zero imaginary extent the quotient is an infinity or NaN, which  *)
(* differs from the finite ratio.                                          *)
ratio_differs(ratio, upper_left, lower_right) ==
    LET num == fsub(lower_right.re, upper_left.re)
        den == fsub(upper_left.im, lower_right.im)
    IN  IF den = 0 THEN TRUE ELSE ratio # fdiv(num, den)

(* Mutant of common_args: the two branches of the correction are swapped. *)
common_args_swapped(bounds, upper_left, lower_right) ==
    LET ratio == pixel_ratio(bounds)
    IN  IF ~ratio_differs(ratio, upper_left, lower_right)
        THEN [upper_left |-> upper_left, lower_right |-> lower_right]
        ELSE IF ratio <= Unit
        THEN LET half == fdiv(fdiv(Unit, ratio), 2 * Unit)
             IN  [upper_left |-> Cplx(upper_left.re, fsub(upper_left.im, half)),
                  lower_right |-> Cplx(lower_right.re, fadd(lower_right.im, half))]
        ELSE LET half == fdiv(ratio, 2 * Unit)
             IN  [upper_left |-> Cplx(fadd(upper_left.re, half), upper_left.im),
                  lower_right |-> Cplx(fsub(lower_right.re, half), lower_right.im)]

(* args.rs: the corners common_args returns *)
common_args(bounds, upper_left, lower_right) ==
    LET ratio == pixel_ratio(bounds)
    IN  IF ~ratio_differs(ratio, upper_left, lower_right)
        THEN [upper_left |-> upper_left, lower_right |-> lower_right]
        ELSE IF ratio > Unit
        THEN LET half == fdiv(fdiv(Unit, ratio), 2 * Unit)
             IN  [upper_left |-> Cplx(upper_left.re, fsub(upper_left.im, half)),
                  lower_right |-> Cplx(lower_right.re, fadd(lower_right.im, half))]
        ELSE LET half == fdiv(ratio, 2 * Unit)
             IN  [upper_left |-> Cplx(fadd(upper_left.re, half), upper_left.im),
                  lower_right |-> Cplx(fsub(lower_right.re, half), lower_right.im)]

(* main.rs: common_args reaches unimplemented!() when the ratios differ *)
common_args_main_panics(bounds, upper_left, lower_right) ==
    ratio_differs(pixel_ratio(bounds), upper_left, lower_right)

ArgsIdle ==
    /\ aversion = "args"
    /\ abounds = <<1, 1>>
    /\ aul_in = Cplx(0, 0)
    /\ alr_in = Cplx(0, 0)
    /\ aul = Cplx(0, 0)
    /\ alr = Cplx(0, 0)
    /\ apc = "done"

ArgsInit ==
    /\ aversion \in {"args", "main"}
    /\ abounds \in BoundsSet
    /\ \E r \in PlaneRects : aul_in = r[1] /\ alr_in = r[2]
    /\ aul = aul_in
    /\ alr = alr_in
    /\ apc = "call"

CommonArgs ==
    /\ apc = "call"
    /\ aversion = "args"
    /\ LET out == common_args(abounds, aul_in, alr_in)
       IN  /\ aul' = out.upper_left
           /\ alr' = out.lower_right
    /\ apc' = "done"
    /\ UNCHANGED <<aversion, abounds, aul_in, alr_in>>
    /\ UNCHANGED NotArgs

CommonArgsMain ==
    /\ apc = "call"
    /\ aversion = "main"
    /\ apc' = IF common_args_main_panics(abounds, aul_in, alr_in)
              THEN "panicked" ELSE "done"
    /\ UNCHANGED <<aversion, abounds, aul_in, alr_in, aul, alr>>
    /\ UNCHANGED NotArgs

(* ---------------------------------------------------------------------- *)
(* monocub: monotone cubic interpolation of one colour channel             *)
(* ---------------------------------------------------------------------- *)
(* Sequences are 1-based: slopes[k] of the source is slopes[k + 1] here.   *)
slopes_of(y, knots) ==
    [i \in 1..(Len(y) - 1) |->
        fdiv(fsub(FromInt(y[i + 1]), FromInt(y[i])), fsub(knots[i + 1], knots[i]))]

(* The first m: the end slopes at the ends, and at an interior knot the    *)
(* mean of the adjacent slopes, or 0 when their product is negative.       *)
initial_tangents(slopes) ==
    LET n == Len(slopes) + 1
    IN  [j \in 1..n |->
            IF j = 1 THEN slopes[1]
            ELSE IF j = n THEN slopes[n - 1]
            ELSE IF fmul(slopes[j - 1], slopes[j]) < 0 THEN 0
            ELSE fdiv(fadd(slopes[j - 1], slopes[j]), 2 * Unit)]

(* for k in 0..n - 1 { if slopes[k] == 0.0 { m[k] = 0.0; m[k+1] = 0.0; ... *)
flat_tangents(m, slopes) ==
    [j \in 1..Len(m) |->
        IF \/ (j <= Len(slopes) /\ slopes[j] = 0)
           \/ (j >= 2 /\ slopes[j - 1] = 0)
        THEN 0 ELSE m[j]]

(* ignores: the (0-based) intervals of slope 0, ascending *)
ignores_of(slopes) ==
    LET flat == {k \in 0..(Len(slopes) - 1) : slopes[k + 1] = 0}
        nth[j \in 1..Cardinality(flat)] ==
            CHOOSE k \in flat : Cardinality({f \in flat : f < k}) = j - 1
    IN  [j \in 1..Cardinality(flat) |-> nth[j]]

RECURSIVE to_do_loop(_, _, _, _)
(* while cur < ignores.len() { if i < ignores[cur] { to_do.push(i); i += 1 } *)
(*                             else { i = ignores[cur] + 1; cur += 1 } }     *)
to_do_loop(ignores, cur, i, to_do) ==
    IF cur >= Len(ignores) THEN to_do
    ELSE IF i < ignores[cur + 1]
    THEN to_do_loop(ignores, cur, i + 1, Append(to_do, i))
    ELSE to_do_loop(ignores, cur + 1, ignores[cur + 1] + 1, to_do)

(* The body of the loop over to_do for the (0-based) interval k. *)
limit_tangent(m, slopes, k) ==
    LET a == fdiv(m[k + 1], slopes[k + 1])
        b == fdiv(m[k + 2], slopes[k + 1])
        r2 == fadd(fmul(a, a), fmul(b, b))
    IN  IF a < 0 THEN [m EXCEPT ![k + 1] = 0]
        ELSE IF b < 0 THEN [m EXCEPT ![k + 2] = 0]
        ELSE IF r2 > 9 * Unit
        THEN LET t == fdiv(3 * Unit, fsqrt(r2))
             IN  [m EXCEPT ![k + 1] = fmul(fmul(t, a), slopes[k + 1]),
                           ![k + 2] = fmul(fmul(t, b), slopes[k + 1])]
        ELSE m

RECURSIVE limit_tangents(_, _, _, _)
limit_tangents(m, slopes, to_do, j) ==
    IF j > Len(to_do) THEN m
    ELSE limit_tangents(limit_tangent(m, slopes, to_do[j]), slopes, to_do, j + 1)

(* With fewer than 2 knot values the subtraction n - 1 or the index        *)
(* slopes[0] fails: the call panics.                                       *)
monotonic_cubic_preprocess(y, knots) ==
    IF Len(y) < 2 THEN [panic |-> TRUE, m |-> <<>>]
    ELSE LET slopes == slopes_of(y, knots)
             m == flat_tangents(initial_tangents(slopes), slopes)
             to_do == to_do_loop(ignores_of(slopes), 0, 0, <<>>)
         IN  [panic |-> FALSE, m |-> limit_tangents(m, slopes, to_do, 1)]

powi2(t) == fmul(t, t)

powi3(t) == fmul(fmul(t, t), t)

h00(t) == fadd(fsub(fmul(2 * Unit, powi3(t)), fmul(3 * Unit, powi2(t))), Unit)

h10(t) == fadd(fsub(powi3(t), fmul(2 * Unit, powi2(t))), t)

h01(t) == fadd(fmul(-2 * Unit, powi3(t)), fmul(3 * Unit, powi2(t)))

h11(t) == fsub(powi3(t), powi2(t))

(* The Hermite cubic of the (0-based) interval k at t, cast to u8. *)
hermite(k, t, knots, y, m) ==
    LET delta == fsub(knots[k + 2], knots[k + 1])
    IN  as_u8(fadd(fadd(fadd(fmul(FromInt(y[k + 1]), h00(t)),
                             fmul(fmul(delta, m[k + 1]), h10(t))),
                        fmul(FromInt(y[k + 2]), h01(t))),
                   fmul(fmul(delta, m[k + 2]), h11(t))))

(* The parameter t of the branch x >= knots[n - 1], with k = n - 2. *)
last_t(x, knots, k) ==
    fdiv(fsub(x, knots[k + 2]), fsub(knots[k + 2], knots[k + 1]))

(* The parameter t of the interval k found by the loop. *)
interval_t(x, knots, k) ==
    fdiv(fsub(x, knots[k + 1]), fsub(knots[k + 2], knots[k + 1]))

interpolate(x, knots, y, m) ==
    LET n == Len(knots)
    IN  IF n < 2 THEN [panic |-> TRUE, val |-> 0]
        ELSE IF x >= knots[n]
        THEN [panic |-> FALSE,
              val |-> hermite(n - 2, last_t(x, knots, n - 2), knots, y, m)]
        ELSE IF \E k \in 0..(n - 2) : knots[k + 1] <= x /\ x <= knots[k + 2]
        THEN LET k == CHOOSE k \in 0..(n - 2) :
                        /\ knots[k + 1] <= x /\ x <= knots[k + 2]
                        /\ \A j \in 0..(k - 1) : ~(knots[j + 1] <= x /\ x <= knots[j + 2])
             IN  [panic |-> FALSE,
                  val |-> hermite(k, interval_t(x, knots, k), knots, y, m)]
        ELSE [panic |-> TRUE, val |-> 0]

(* Knot values, knot spacings and query positions of the model. *)
YSet == {0, 100, 101, 255}

GapSet == {Unit, 2 * Unit}

RECURSIVE SeqsOf(_, _)
SeqsOf(S, n) ==
    IF n = 0 THEN {<<>>}
    ELSE {Append(q, e) : q \in SeqsOf(S, n - 1), e \in S}

RECURSIVE knots_from(_, _)
(* Knot positions starting at 0 with the given gaps. *)
knots_from(gaps, n) ==
    IF n = 0 THEN <<0>>
    ELSE LET k == knots_from(gaps, n - 1)
         IN  Append(k, k[Len(k)] + gaps[n])

(* Query positions: the halves from the first knot to one past the last. *)
Queries(knots) == {q * (Unit \div 2) : q \in 0..(2 * (knots[Len(knots)] \div Unit) + 2)}

PaletteIdle ==
    /\ cy = <<0, 0>>
    /\ cknots = <<0, Unit>>
    /\ cm = <<>>
    /\ cx = 0
    /\ cval = 0
    /\ cprev = -1
    /\ cpc = "done"

PaletteInit ==
    /\ \E n \in 0..MaxKnots :
          /\ cy \in SeqsOf(YSet, n)
          /\ IF n = 0 THEN cknots = <<>>
             ELSE \E gaps \in SeqsOf(GapSet, n - 1) : cknots = knots_from(gaps, n - 1)
    /\ cm = <<>>
    /\ cx = -1
    /\ cval = -1
    /\ cprev = -1
    /\ cpc = "preprocess"

Preprocess ==
    /\ cpc = "preprocess"
    /\ LET out == monotonic_cubic_preprocess(cy, cknots)
       IN  /\ cm' = out.m
           /\ cpc' = IF out.panic THEN "panicked" ELSE "query"
    /\ UNCHANGED <<cy, cknots, cx, cval, cprev>>
    /\ UNCHANGED NotPalette

(* The next query, at a position after the last one. *)
Interpolate ==
    /\ cpc = "query"
    /\ \E x \in Queries(cknots) :
          /\ x > cx
          /\ LET out == interpolate(x, cknots, cy, cm)
             IN  /\ cx' = x
                 /\ cprev' = cval
                 /\ cval' = out.val
                 /\ cpc' = IF out.panic THEN "panicked" ELSE "query"
    /\ UNCHANGED <<cy, cknots, cm>>
    /\ UNCHANGED NotPalette

(* ---------------------------------------------------------------------- *)
(* parse_pair / parse_complex                                              *)
(* ---------------------------------------------------------------------- *)
(* The characters strings are made of: digits, sign, point and the two     *)
(* separators the program uses.                                            *)
Chars == {"0", "1", "-", ".", ",", "x"}

Digits == {"0", "1"}

Ok(v) == [ok |-> TRUE, val |-> v]

Err == [ok |-> FALSE, val |-> 0]

RECURSIVE dec_value(_)
(* The number a string of decimal digits denotes. *)
dec_value(s) ==
    IF Len(s) = 0 THEN 0
    ELSE 10 * dec_value(SubSeq(s, 1, Len(s) - 1))
         + (IF s[Len(s)] = "1" THEN 1 ELSE 0)

all_digits(s) == \A j \in 1..Len(s) : s[j] \in Digits

(* usize::from_str: one or more digits, no sign. *)
from_str_usize(s) ==
    IF Len(s) > 0 /\ all_digits(s) THEN Ok(dec_value(s)) ELSE Err

(* f64::from_str: an optional sign, then digits with at most one point and *)
(* at least one digit ("1.", ".1" and "-.1" are numbers; "", "-", "." and  *)
(* "-." are not).  The value is the nearest float to the decimal.          *)
from_str_f64(s) ==
    LET neg == Len(s) > 0 /\ s[1] = "-"
        body == IF neg THEN SubSeq(s, 2, Len(s)) ELSE s
        points == {j \in 1..Len(body) : body[j] = "."}
        point == IF points = {} THEN Len(body) + 1 ELSE CHOOSE j \in points : TRUE
        whole == SubSeq(body, 1, point - 1)
        fraction == SubSeq(body, point + 1, Len(body))
    IN  IF /\ Cardinality(points) <= 1
           /\ all_digits(whole) /\ all_digits(fraction)
           /\ Len(whole) + Len(fraction) > 0
        THEN Ok((IF neg THEN -1 ELSE 1)
                * Frac(dec_value(whole \o fraction), 10 ^ Len(fraction)))
        ELSE Err

from_str(type, s) == IF type = "usize" THEN from_str_usize(s) ELSE from_str_f64(s)

RECURSIVE find_from(_, _, _)
(* s.find(separator): the 1-based position of the first occurrence at or   *)
(* after j, 0 when there is none.                                          *)
find_from(s, separator, j) ==
    IF j > Len(s) THEN 0
    ELSE IF s[j] = separator THEN j
    ELSE find_from(s, separator, j + 1)

find(s, separator) == find_from(s, separator, 1)

(* &s[..index] *)
left_part(s, index) == SubSeq(s, 1, index - 1)

(* Mutant of right_part: the slice starts at the separator. *)
right_part_from_separator(s, index) == SubSeq(s, index, Len(s))

(* &s[index + 1..] *)
right_part(s, index) == SubSeq(s, index + 1, Len(s))

parse_pair(type, s, separator) ==
    LET index == find(s, separator)
    IN  IF index = 0 THEN None
        ELSE LET l == from_str(type, left_part(s, index))
                 r == from_str(type, right_part(s, index))
             IN  IF l.ok /\ r.ok THEN Some(<<l.val, r.val>>) ELSE None

parse_complex(s) ==
    LET pair == parse_pair("f64", s, ",")
    IN  IF pair.some THEN Some(Cplx(pair.val[1], pair.val[2])) ELSE None

RECURSIVE StringsOf(_)
StringsOf(n) ==
    IF n = 0 THEN {<<>>}
    ELSE LET shorter == StringsOf(n - 1)
         IN  shorter \cup {Append(t, ch) : t \in {u \in shorter : Len(u) = n - 1},
                                            ch \in Chars}

ParseIdle ==
    /\ tstr = <<>>
    /\ tsep = ","
    /\ ttype = "f64"
    /\ tresult = None
    /\ tpc = "pair"

ParseInit ==
    /\ tstr \in StringsOf(MaxStr)
    /\ tsep \in {",", "x"}
    /\ ttype \in {"usize", "f64"}
    /\ tresult = None
    /\ tpc = "call"

ParsePair ==
    /\ tpc = "call"
    /\ tresult' = parse_pair(ttype, tstr, tsep)
    /\ tpc' = "pair"
    /\ UNCHANGED <<tstr, tsep, ttype>>
    /\ UNCHANGED NotParse

ParseComplex ==
    /\ tpc = "call"
    /\ tresult' = parse_complex(tstr)
    /\ tpc' = "complex"
    /\ UNCHANGED <<tstr, tsep, ttype>>
    /\ UNCHANGED NotParse

(* ---------------------------------------------------------------------- *)
(* Specifications                                                          *)
(* ---------------------------------------------------------------------- *)
(* create_mandel / create_julia *)
Next ==
    \/ Allocate
    \/ \E i \in BandIds : BandStart(i)
    \/ \E i \in BandIds : BandPixel(i)
    \/ WriteImage

Init ==
    /\ KernelIdle /\ MapIdle /\ SplitIdle /\ PipeInit /\ ArgsIdle /\ PaletteIdle /\ ParseIdle

Spec ==
    /\ Init
    /\ [][Next]_vars

(* A band has a step to take: BandStart or BandPixel is enabled. *)
BandEnabled ==
    pc = "parallel" /\ \E i \in BandIds : band_pc[i + 1] \in {"ready", "render"}

(* The effect of a band step: BandStart moves its band from "ready" to     *)
(* "render", BandPixel advances its band's column or ends the band; no     *)
(* other step changes a band's position.                                   *)
BandStep ==
    \E i \in 1..Len(band_pc) : band_pc'[i] # band_pc[i] \/ band_col'[i] # band_col[i]

(* for_each runs every band to its end and returns, and the calls before   *)
(* and after it are made: weak fairness of the three kinds of step.  That  *)
(* of the band steps is written out with BandEnabled, the condition under  *)
(* which a band step is enabled, and BandStep, the steps' effect.          *)
SpecFair ==
    /\ Init
    /\ [][Next]_vars
    /\ WF_vars(Allocate)
    /\ WF_vars(WriteImage)
    /\ ([]<>(~BandEnabled) \/ []<><<BandStep>>_vars)

KernelNext == KernelReturn \/ KernelIterate \/ KernelExhaust

InitKernel ==
    /\ KernelInit /\ MapIdle /\ SplitIdle /\ PipeIdle /\ ArgsIdle /\ PaletteIdle /\ ParseIdle

SpecKernel ==
    /\ InitKernel
    /\ [][KernelNext]_vars

MapNext == MapPixel

InitMap ==
    /\ KernelIdle /\ MapInit /\ SplitIdle /\ PipeIdle /\ ArgsIdle /\ PaletteIdle /\ ParseIdle

SpecMap ==
    /\ InitMap
    /\ [][MapNext]_vars

SplitNext == SplitWhole \/ SplitBand \/ SplitFinish

InitSplit ==
    /\ KernelIdle /\ MapIdle /\ SplitInit /\ PipeIdle /\ ArgsIdle /\ PaletteIdle /\ ParseIdle

SpecSplit ==
    /\ InitSplit
    /\ [][SplitNext]_vars

ArgsNext == CommonArgs \/ CommonArgsMain

InitArgs ==
    /\ KernelIdle /\ MapIdle /\ SplitIdle /\ PipeIdle /\ ArgsInit /\ PaletteIdle /\ ParseIdle

SpecArgs ==
    /\ InitArgs
    /\ [][ArgsNext]_vars

PaletteNext == Preprocess \/ Interpolate

InitPalette ==
    /\ KernelIdle /\ MapIdle /\ SplitIdle /\ PipeIdle /\ ArgsIdle /\ PaletteInit /\ ParseIdle

SpecPalette ==
    /\ InitPalette
    /\ [][PaletteNext]_vars

ParseNext == ParsePair \/ ParseComplex

InitParse ==
    /\ KernelIdle /\ MapIdle /\ SplitIdle /\ PipeIdle /\ ArgsIdle /\ PaletteIdle /\ ParseInit

SpecParse ==
    /\ InitParse
    /\ [][ParseNext]_vars

(* ---------------------------------------------------------------------- *)
(* Claims about the kernels                                                *)
(* ---------------------------------------------------------------------- *)
KernelDone == kpc = "done"

(* |c|^2 >= 4, computed without rounding *)
OutsideRadius2(c) == c.re * c.re + c.im * c.im >= 4 * Unit * Unit

(* The escape test of the recurrence: |z|^2 >= 4 *)
EscapeTest(z) == norm_sqr(z) >= 4 * Unit

RECURSIVE trajectory(_, _, _, _)
(* <<z_0, ..., z_n>> of the recurrence of the kernel *)
trajectory(kind, point, seed, n) ==
    IF n = 0 THEN <<kernel_start(kind, point)>>
    ELSE LET t == trajectory(kind, point, seed, n - 1)
         IN  Append(t, kernel_step(kind, t[Len(t)],
                                   kernel_param(kind, point, seed)))

(* C1, as stated: for every c with |c| >= 2 and every limit >= 1,          *)
(* escape_time_mandel(c, limit) returns Some(0).                           *)
C1_Original ==
    (KernelDone /\ kkind = "mandel" /\ klimit >= 1 /\ OutsideRadius2(kpoint))
        => kresult = Some(0)

(* C1, amended: for every c whose squared norm, as norm_sqr computes it,   *)
(* is >= 4, escape_time_mandel(c, limit) returns Some(1) for every         *)
(* limit >= 2 and None for limit = 1: z is 0 when iteration 0 tests it and *)
(* c when iteration 1 tests it.                                            *)
C1_MandelOutsideEscapesAtOne ==
    (KernelDone /\ kkind = "mandel" /\ klimit >= 1 /\ escaped(kpoint))
        => kresult = (IF klimit >= 2 THEN Some(1) ELSE None)

C1_Witness ==
    /\ KernelDone /\ kkind = "mandel" /\ klimit >= 2
    /\ OutsideRadius2(kpoint) /\ escaped(kpoint)
    /\ kresult = Some(1)

(* C2: for each kernel and every limit, the result is Some(i) exactly when *)
(* i is the smallest index below limit whose trajectory value z_i passes   *)
(* the escape test, and None exactly when no z_i with i < limit passes it; *)
(* a returned i is below limit.                                            *)
C2_FirstEscapeIndex ==
    KernelDone =>
        IF kresult.some
        THEN /\ kresult.val < klimit
             /\ LET t == trajectory(kkind, kpoint, kseed, kresult.val)
                IN  /\ \A j \in 1..kresult.val : ~EscapeTest(t[j])
                    /\ EscapeTest(t[kresult.val + 1])
        ELSE \/ klimit = 0
             \/ LET t == trajectory(kkind, kpoint, kseed, klimit - 1)
                IN  \A j \in 1..klimit : ~EscapeTest(t[j])

C2_Witness ==
    /\ KernelDone /\ kkind = "burningship"
    /\ kresult.some /\ kresult.val >= 3

(* C3: escape_time_mandel(0, limit) returns None for every limit >= 1: z   *)
(* stays at 0 on every step.                                               *)
C3_MandelOriginNeverEscapes ==
    (kkind = "mandel" /\ kpoint = Cplx(0, 0) /\ klimit >= 1)
        => /\ kz = Cplx(0, 0)
           /\ KernelDone => kresult = None

(* The loop taken one iteration per step and the loop as one call agree. *)
KernelCallAgrees ==
    KernelDone => kresult = escape_time(kkind, kpoint, kseed, klimit)

C3_Witness ==
    /\ KernelDone /\ kkind = "mandel" /\ kpoint = Cplx(0, 0)
    /\ klimit = Limit /\ ki = Limit /\ kresult = None

(* ---------------------------------------------------------------------- *)
(* Claims about the band decomposition and the mapper                      *)
(* ---------------------------------------------------------------------- *)
(* C4: rendering the whole image in one call over the full bounds writes   *)
(* the same bytes as rendering each row separately with band bounds        *)
(* (width, 1) and the band corners create_mandel / create_julia compute.   *)
C4_SplitIdentical ==
    spc = "done" => sbands = swhole

(* The plane point of every pixel is the same in both decompositions. *)
C4_SamePoints ==
    spc = "done" =>
        \A row \in 0..(sbounds[2] - 1), col \in 0..(sbounds[1] - 1) :
            pixel_to_point(sbounds, <<col, row>>, sul, slr)
            = pixel_to_point(<<sbounds[1], 1>>, <<col, 0>>,
                             pixel_to_point(sbounds, <<0, row>>, sul, slr),
                             pixel_to_point(sbounds, <<sbounds[1], row + 1>>, sul, slr))

(* ---------------------------------------------------------------------- *)
(* Claims about the band-parallel pipeline                                 *)
(* ---------------------------------------------------------------------- *)
InBand(n, i) == bands[i + 1][1] <= n /\ n <= bands[i + 1][2]

(* C5: once the buffer is split, the bands are pairwise disjoint and       *)
(* cover the buffer of 3 * width * height bytes; no byte is ever stored by *)
(* a band other than the one it belongs to, nor more than once; and when   *)
(* the parallel phase is over every byte has been stored exactly once.     *)
C5_BandsDisjointWrittenOnce ==
    (pc # "start" /\ Len(bands) > 0) =>
        /\ Len(ppixels) = 3 * pbounds[1] * pbounds[2]
        /\ \A i, j \in BandIds : i # j => ~\E n \in 1..Len(ppixels) : InBand(n, i) /\ InBand(n, j)
        /\ \A n \in 1..Len(ppixels) : \E i \in BandIds : InBand(n, i)
        /\ \A n \in 1..Len(ppixels) :
              /\ Len(written[n]) <= 1
              /\ \A k \in 1..Len(written[n]) : InBand(n, written[n][k])
        /\ pc = "encoded" => \A n \in 1..Len(ppixels) : Len(written[n]) = 1

C5_Witness ==
    /\ pc = "encoded" /\ Len(bands) >= 2 /\ pbounds[1] >= 2
    /\ \A n \in 1..Len(ppixels) : written[n] = <<(n - 1) \div (pbounds[1] * 3)>>

RECURSIVE bands_in_order(_)
(* The bands from band i on, each as the closure leaves it, one after the  *)
(* other in index order.                                                   *)
bands_in_order(i) ==
    IF i >= pbounds[2] THEN <<>>
    ELSE render_band(Zeroed(pbounds[1] * 3), i, pkind, pbounds, pul, plr, pseed,
                     pcolors).pixels \o bands_in_order(i + 1)

SequentialBuffer == bands_in_order(0)

(* C6: whatever the interleaving of the band workers, the buffer handed to *)
(* the encoder is the one the sequential order of the bands produces.      *)
C6_Deterministic ==
    (pc = "encoded" /\ Len(bands) > 0) => image = SequentialBuffer

C6_Witness ==
    /\ pc = "encoded" /\ Len(bands) >= 2 /\ encoder_calls = 1
    /\ \E n \in 1..Len(image) : image[n] # 0
    /\ image = SequentialBuffer

(* C7, as stated: pixel (0, 0) maps to upper_left and pixel (width,        *)
(* height) maps to lower_right, exactly.                                   *)
C7_Original ==
    mpc = "done" =>
        /\ mpixel = <<0, 0>> => mpoint = mul
        /\ mpixel = mbounds => mpoint = mlr

(* |got - want| is at most 4 units in the last place of the larger of the  *)
(* extent and want.                                                        *)
WithinRounding(got, want, extent) ==
    LET ulp == IF UlpOf(Abs(extent), 1) > UlpOf(Abs(want), 1)
               THEN UlpOf(Abs(extent), 1) ELSE UlpOf(Abs(want), 1)
    IN  Abs(got - want) <= 4 * ulp

(* C7, amended: pixel (0, 0) maps to upper_left exactly; pixel (width,     *)
(* height) maps to lower_right up to the rounding of the four operations:  *)
(* each coordinate is within 4 units in the last place of lower_right's.   *)
C7_BoundaryWithinRounding ==
    mpc = "done" =>
        /\ mpixel = <<0, 0>> => mpoint = mul
        /\ mpixel = mbounds =>
              /\ WithinRounding(mpoint.re, mlr.re, mlr.re - mul.re)
              /\ WithinRounding(mpoint.im, mlr.im, mul.im - mlr.im)

C7_Witness ==
    /\ mpc = "done" /\ mpixel = mbounds /\ mbounds[1] >= 2
    /\ mpoint.re # mlr.re
    /\ WithinRounding(mpoint.re, mlr.re, mlr.re - mul.re)

(* ---------------------------------------------------------------------- *)
(* Claims about the palette interpolation                                  *)
(* ---------------------------------------------------------------------- *)
StrictlyIncreasing(y) == \A i \in 1..(Len(y) - 1) : y[i] < y[i + 1]

StrictlyDecreasing(y) == \A i \in 1..(Len(y) - 1) : y[i] > y[i + 1]

(* C8: for strictly monotone knot values the bytes interpolate returns at  *)
(* increasing query positions inside the knot range are non-decreasing     *)
(* (non-increasing for decreasing knot values).                            *)
C8_NoOvershoot ==
    (cpc = "query" /\ cprev # -1 /\ cx < cknots[Len(cknots)]) =>
        /\ StrictlyIncreasing(cy) => cval >= cprev
        /\ StrictlyDecreasing(cy) => cval <= cprev

(* ---------------------------------------------------------------------- *)
(* Claims about the aspect corrector                                       *)
(* ---------------------------------------------------------------------- *)
ArgsReturned == apc = "done" /\ aversion = "args"

RatiosDiffer == ratio_differs(pixel_ratio(abounds), aul_in, alr_in)

RealUnchanged == aul.re = aul_in.re /\ alr.re = alr_in.re

ImagUnchanged == aul.im = aul_in.im /\ alr.im = alr_in.im

(* C9: whenever the pixel ratio differs from the ratio of the plane        *)
(* rectangle, the corners common_args returns have the pixel ratio.        *)
C9_CorrectedRatioMatches ==
    (ArgsReturned /\ RatiosDiffer)
        => ~ratio_differs(pixel_ratio(abounds), aul, alr)

(* C10, as stated: ratios differ and pixel ratio below 1: the real         *)
(* coordinates are unchanged; above 1: the imaginary coordinates are       *)
(* unchanged; ratios equal: both corners unchanged.                        *)
C10_Original ==
    ArgsReturned =>
        /\ (RatiosDiffer /\ pixel_ratio(abounds) < Unit) => RealUnchanged
        /\ (RatiosDiffer /\ pixel_ratio(abounds) > Unit) => ImagUnchanged
        /\ ~RatiosDiffer => (RealUnchanged /\ ImagUnchanged)

(* C10, amended: ratios differ and pixel ratio above 1: only the imaginary *)
(* coordinates are adjusted (the rectangle is shrunk on that axis) and     *)
(* both real coordinates are unchanged; pixel ratio at most 1: only the    *)
(* real coordinates are adjusted and both imaginary coordinates are        *)
(* unchanged; ratios equal: both corners unchanged.                        *)
C10_AxisAndFrame ==
    ArgsReturned =>
        /\ (RatiosDiffer /\ pixel_ratio(abounds) > Unit) =>
              /\ RealUnchanged
              /\ aul.im <= aul_in.im /\ alr.im >= alr_in.im
        /\ (RatiosDiffer /\ pixel_ratio(abounds) <= Unit) =>
              /\ ImagUnchanged
              /\ aul.re >= aul_in.re /\ alr.re <= alr_in.re
        /\ ~RatiosDiffer => (RealUnchanged /\ ImagUnchanged)

C10_Witness ==
    /\ ArgsReturned /\ RatiosDiffer /\ pixel_ratio(abounds) < Unit
    /\ ImagUnchanged /\ aul.re > aul_in.re /\ alr.re < alr_in.re

(* ---------------------------------------------------------------------- *)
(* Claims about the parsers                                                *)
(* ---------------------------------------------------------------------- *)
(* i is the position of the first occurrence of sep in s *)
FirstOccurrence(s, sep, i) ==
    /\ i \in 1..Len(s) /\ s[i] = sep
    /\ \A j \in 1..(i - 1) : s[j] # sep

(* C11: parse_pair(s, sep) is Some((l, r)) exactly when s contains sep and *)
(* the text before its first occurrence parses as T to l and the text      *)
(* after it parses as T to r, and None otherwise; parse_complex(s) is      *)
(* Some(Complex{re, im}) exactly when parse_pair::<f64>(s, ',') is         *)
(* Some((re, im)).                                                         *)
C11_ParsePairExactly ==
    /\ tpc = "pair" =>
          /\ tresult.some <=>
                \E i \in 1..Len(tstr) :
                    /\ FirstOccurrence(tstr, tsep, i)
                    /\ from_str(ttype, SubSeq(tstr, 1, i - 1)).ok
                    /\ from_str(ttype, SubSeq(tstr, i + 1, Len(tstr))).ok
          /\ tresult.some =>
                \E i \in 1..Len(tstr) :
                    /\ FirstOccurrence(tstr, tsep, i)
                    /\ tresult.val = <<from_str(ttype, SubSeq(tstr, 1, i - 1)).val,
                                       from_str(ttype, SubSeq(tstr, i + 1, Len(tstr))).val>>
          /\ ~tresult.some => tresult = None
    /\ tpc = "complex" =>
          LET pair == parse_pair("f64", tstr, ",")
          IN  /\ tresult.some <=> pair.some
              /\ tresult.some => (tresult.val.re = pair.val[1] /\ tresult.val.im = pair.val[2])

C11_Witness ==
    /\ tpc = "pair" /\ ttype = "usize" /\ tsep = "x"
    /\ tstr = <<"1", "0", "x", "1">>
    /\ tresult = Some(<<10, 1>>)

(* ---------------------------------------------------------------------- *)
(* Claims about the palette preprocess and the end of the knot range       *)
(* ---------------------------------------------------------------------- *)
(* C12: with fewer than 2 knots the palette construction does not crash    *)
(* inside monotonic_cubic_preprocess / interpolate: the failure is an      *)
(* error outcome handed to the caller.                                     *)
C12_FewKnotsNoCrash ==
    Len(cy) < 2 => cpc # "panicked"

(* The (0-based) intervals whose slope is not 0, ascending. *)
non_flat(slopes) ==
    LET keep == {k \in 0..(Len(slopes) - 1) : slopes[k + 1] # 0}
    IN  [j \in 1..Cardinality(keep) |->
            CHOOSE k \in keep : Cardinality({f \in keep : f < k}) = j - 1]

(* C13: the tangents monotonic_cubic_preprocess returns are those obtained *)
(* by applying the tangent limiting to every interval whose slope is not 0 *)
(* (and to no flat interval), wherever the flat intervals are.             *)
C13_LimitEveryNonFlatInterval ==
    (cpc = "query" /\ Len(cy) >= 2) =>
        LET slopes == slopes_of(cy, cknots)
            m == flat_tangents(initial_tangents(slopes), slopes)
        IN  cm = limit_tangents(m, slopes, non_flat(slopes), 1)

(* C14: a query at or beyond the last knot is evaluated on the last        *)
(* interval with t = (x - x[n-2]) / (x[n-1] - x[n-2]); and a query at a    *)
(* knot x[k] returns y[k], the last knot included.                         *)
C14_LastIntervalExtended ==
    (cpc = "query" /\ cx >= 0) =>
        LET n == Len(cknots)
        IN  /\ cx >= cknots[n] =>
                  cval = hermite(n - 2, interval_t(cx, cknots, n - 2), cknots, cy, cm)
            /\ \A k \in 1..n : cx = cknots[k] => cval = cy[k]

(* ---------------------------------------------------------------------- *)
(* Claims about the order of the pipeline and the safety of the bands      *)
(* ---------------------------------------------------------------------- *)
EncoderAfterBands ==
    /\ encoder_calls <= 1
    /\ encoder_calls = 1 =>
          /\ pc = "encoded" /\ image = ppixels
          /\ \A i \in BandIds : band_pc[i + 1] = "done"

(* C15: in every run the encoder is called, once; when it is called every *)
(* band is finished; a band worker only steps after the allocation and     *)
(* before the encoder's call, and the buffer does not change once the      *)
(* encoder has been called.                                                *)
C15_EncoderOnceAfterBands ==
    /\ []EncoderAfterBands
    /\ [][BandStep => (/\ pc = "parallel" /\ encoder_calls = 0
                       /\ Len(ppixels) = (pbounds[1] * 3) * pbounds[2])]_vars
    /\ [][encoder_calls >= 1 => ppixels' = ppixels]_vars
    /\ <>(encoder_calls = 1)

C15_Witness ==
    /\ encoder_calls = 1 /\ pc = "encoded" /\ pbounds[2] >= 2
    /\ \A i \in BandIds : band_pc[i + 1] = "done" /\ band_col[i + 1] = pbounds[1] * 3

(* C16: the corners common_args returns satisfy lower_right.re >=          *)
(* upper_left.re and upper_left.im >= lower_right.im whenever the parsed   *)
(* corners did.                                                            *)
C16_RectangleInvariantKept ==
    (ArgsReturned /\ alr_in.re >= aul_in.re /\ aul_in.im >= alr_in.im)
        => (alr.re >= aul.re /\ aul.im >= alr.im)

(* C17: no band worker fails: the length assertion holds for every band    *)
(* (its slice has width * 3 bytes, its bounds are (width, 1)), and the     *)
(* three indices of every pixel of a band are inside the band's slice.     *)
C17_BandsNeverPanic ==
    /\ pc # "panicked"
    /\ \A i \in BandIds :
          /\ band_len(i) = pbounds[1] * 3
          /\ render_assert(band_len(i), <<pbounds[1], 1>>)
          /\ \A col \in byte_columns(<<pbounds[1], 1>>) :
                \A j \in 1..3 :
                    pixel_stores(pixel_index(<<pbounds[1], 1>>, 0, col), Black)[j][1]
                        \in 0..(band_len(i) - 1)

C17_Witness ==
    /\ pc = "parallel" /\ pbounds[1] >= 2
    /\ \E i \in BandIds : band_pc[i + 1] = "render" /\ band_col[i + 1] = 3
    /\ \E i \in BandIds : band_pc[i + 1] = "done"

====
